---------------------------- MODULE Spec2Model ----------------------------
(***************************************************************************)
(* A model of lbfgs_lite.hpp: lbfgs_optimize() and its backtracking line   *)
(* search, as a state machine whose steps are cut at the calls of the      *)
(* three client callbacks (evaluator, step-bound provider, progress).      *)
(*                                                                         *)
(* Numbers.  A double is modelled as an exact fraction <<num, den>> in     *)
(* lowest terms with den > 0, extended by the three IEEE-754 specials      *)
(* <<1,0>> (+inf), <<-1,0>> (-inf) and <<0,0>> (NaN).  Rounding, overflow  *)
(* and the sign of zero are not modelled.  The vectors x, g, xp, gp, d and *)
(* the s, y of a history slot have n = 1 component in every run that       *)
(* passes validation, so that the Euclidean norm sqrt(x*x) is Abs(x).      *)
(***************************************************************************)
EXTENDS Integers, Sequences, FiniteSets, TLC

(***************************************************************************)
(* Extended fractions                                                      *)
(***************************************************************************)
RECURSIVE Gcd(_, _)
Gcd(a, b) == IF b = 0 THEN a ELSE Gcd(b, a % b)

IAbs(i) == IF i < 0 THEN -i ELSE i

Sgn(i) == IF i > 0 THEN 1 ELSE IF i < 0 THEN -1 ELSE 0

\* The fraction num/den in lowest terms; a zero denominator gives a special.
Q(num, den) ==
    IF den = 0 THEN <<Sgn(num), 0>>
    ELSE LET s == IF den < 0 THEN -1 ELSE 1
             c == Gcd(IAbs(num), IAbs(den))
         IN  <<(s * num) \div c, (s * den) \div c>>

Zero == <<0, 1>>
One == <<1, 1>>
NaN == <<0, 0>>
PInf == <<1, 0>>

IsNaN(a) == a = NaN
IsInf(a) == a[2] = 0 /\ a[1] # 0
IsFinite(a) == a[2] # 0

Neg(a) == <<-a[1], a[2]>>

Add(a, b) ==
    IF IsNaN(a) \/ IsNaN(b) THEN NaN
    ELSE IF IsInf(a) /\ IsInf(b) THEN (IF a = b THEN a ELSE NaN)
    ELSE IF IsInf(a) THEN a
    ELSE IF IsInf(b) THEN b
    ELSE LET c == Gcd(a[2], b[2])
         IN  Q(a[1] * (b[2] \div c) + b[1] * (a[2] \div c),
               (a[2] \div c) * b[2])

Sub(a, b) == Add(a, Neg(b))

Mul(a, b) ==
    IF a[2] = 0 \/ b[2] = 0 THEN <<Sgn(a[1]) * Sgn(b[1]), 0>>
    ELSE LET c1 == Gcd(IAbs(a[1]), b[2])
             c2 == Gcd(IAbs(b[1]), a[2])
         IN  Q((a[1] \div c1) * (b[1] \div c2),
               (a[2] \div c2) * (b[2] \div c1))

\* 1/b: 1/0 is +inf (the sign of a zero is not modelled), 1/inf is 0.
Inv(b) ==
    IF b[1] = 0 THEN (IF b[2] = 0 THEN NaN ELSE PInf)
    ELSE IF b[2] = 0 THEN Zero
    ELSE <<Sgn(b[1]) * b[2], IAbs(b[1])>>

Div(a, b) == Mul(a, Inv(b))

\* a < b as the C comparison of two doubles: false when either is NaN.
Lt(a, b) ==
    /\ ~IsNaN(a)
    /\ ~IsNaN(b)
    /\ IF a[2] = 0 /\ b[2] = 0 THEN a[1] < b[1]
       ELSE IF a[2] = 0 THEN a[1] < 0
       ELSE IF b[2] = 0 THEN 0 < b[1]
       ELSE LET c == Gcd(a[2], b[2])
            IN  a[1] * (b[2] \div c) < b[1] * (a[2] \div c)

Le(a, b) == ~IsNaN(a) /\ ~IsNaN(b) /\ (a = b \/ Lt(a, b))

Gt(a, b) == Lt(b, a)

Ge(a, b) == Le(b, a)

\* fabs()
Abs(a) == <<IAbs(a[1]), a[2]>>

(***************************************************************************)
(* Return values of lbfgs_optimize()                                       *)
(***************************************************************************)
LBFGS_CONVERGENCE == 0
LBFGS_STOP == 1
LBFGS_ALREADY_MINIMIZED == 2
LBFGSERR_CANCELED == -1022
LBFGSERR_INVALID_N == -1021
LBFGSERR_INVALID_MEMSIZE == -1020
LBFGSERR_INVALID_GEPSILON == -1019
LBFGSERR_INVALID_TESTPERIOD == -1018
LBFGSERR_INVALID_DELTA == -1017
LBFGSERR_INVALID_MINSTEP == -1016
LBFGSERR_INVALID_MAXSTEP == -1015
LBFGSERR_INVALID_FDECCOEFF == -1014
LBFGSERR_INVALID_SCURVCOEFF == -1013
LBFGSERR_INVALID_XTOL == -1012
LBFGSERR_INVALID_MAXLINESEARCH == -1011
LBFGSERR_MINIMUMSTEP == -1007
LBFGSERR_MAXIMUMSTEP == -1006
LBFGSERR_MAXIMUMLINESEARCH == -1005
LBFGSERR_MAXIMUMITERATION == -1004
LBFGSERR_INVALIDPARAMETERS == -1002
LBFGSERR_INCREASEGRADIENT == -1001

InvalidStatuses ==
    { LBFGSERR_INVALID_N, LBFGSERR_INVALID_MEMSIZE, LBFGSERR_INVALID_GEPSILON,
      LBFGSERR_INVALID_TESTPERIOD, LBFGSERR_INVALID_DELTA,
      LBFGSERR_INVALID_MINSTEP, LBFGSERR_INVALID_MAXSTEP,
      LBFGSERR_INVALID_FDECCOEFF, LBFGSERR_INVALID_SCURVCOEFF,
      LBFGSERR_INVALID_XTOL, LBFGSERR_INVALID_MAXLINESEARCH }

LineSearchErrors ==
    { LBFGSERR_MINIMUMSTEP, LBFGSERR_MAXIMUMSTEP, LBFGSERR_MAXIMUMLINESEARCH,
      LBFGSERR_INVALIDPARAMETERS, LBFGSERR_INCREASEGRADIENT }

(***************************************************************************)
(* Bounds of the model                                                     *)
(***************************************************************************)
\* mem_size ranges over 1..MaxMem in the runs that iterate.
MaxMem == 2
\* past ranges over 0..MaxPast.
MaxPast == 2
\* max_iterations ranges over 0..MaxIter (0: no cap).
MaxIter == 2
\* max_linesearch ranges over 1..MaxLS.
MaxLS == 2
\* An uncapped run (max_iterations = 0) is followed up to iteration MaxK.
MaxK == 3

(***************************************************************************)
(* The client: objective functions, start points, callback answers         *)
(***************************************************************************)
\* lbfgs_evaluate_t: the objective value the evaluator returns at v.
EvalF(e, v) ==
    CASE e = "quad" -> Mul(v, v)
      [] e = "cubic" -> Mul(v, Mul(v, v))
      [] e = "concave" -> Neg(Mul(v, v))
      [] e = "linear" -> v
      [] e = "kink" -> IF Ge(Abs(v), One) THEN Mul(<<2, 1>>, Abs(v)) ELSE Abs(v)
      [] e = "wronggrad" -> Mul(v, v)

\* lbfgs_evaluate_t: the gradient the evaluator stores into g at v.
EvalG(e, v) ==
    CASE e = "quad" -> Mul(<<2, 1>>, v)
      [] e = "cubic" -> Mul(<<3, 1>>, Mul(v, v))
      [] e = "concave" -> Mul(<<-2, 1>>, v)
      [] e = "linear" -> Add(One, Mul(Zero, v))
      [] e = "kink" -> Mul(IF Ge(Abs(v), One) THEN <<2, 1>> ELSE One,
                           IF Gt(v, Zero) THEN One
                           ELSE IF Lt(v, Zero) THEN Neg(One) ELSE Zero)
      [] e = "wronggrad" -> Mul(<<-2, 1>>, v)

\* The clients: an evaluator and the x it is started at.
\*   quad       x^2: already minimal at 0, nearly so at 1/8, converges from 1
\*              and from 2
\*   cubic      x^3: a long descent from 2; from -1 the second direction
\*              points uphill
\*   concave    -x^2: the second direction points uphill
\*   linear     x: the gradient never changes, so ys = 0 in the history
\*   kink       |x| inside (-1, 1), 2|x| outside: a full step overshoots
\*   wronggrad  x^2 with the gradient negated: no trial is ever accepted
Clients ==
    { <<"quad", <<0, 1>>>>, <<"quad", <<1, 8>>>>, <<"quad", <<1, 1>>>>,
      <<"quad", <<2, 1>>>>,
      <<"cubic", <<2, 1>>>>, <<"cubic", <<-1, 1>>>>,
      <<"concave", <<1, 1>>>>,
      <<"linear", <<1, 1>>>>,
      <<"kink", <<1, 2>>>>, <<"kink", <<3, 2>>>>,
      <<"wronggrad", <<1, 1>>>> }

\* What a step-bound provider may return.
StepBounds == {<<1, 4>>, One, <<8, 1>>}

\* What a progress callback may return: 0 continues, anything else cancels.
ProgressAnswers == {0, 1, LBFGSERR_CANCELED}

(***************************************************************************)
(* lbfgs_parameter_t, with the argument n                                  *)
(***************************************************************************)
Tenth == <<1, 10>>
NineTenths == <<9, 10>>
MinusOne == <<-1, 1>>
Half == <<1, 2>>

\* One valid and one or more invalid or boundary values of every field.
ValidationConfigs ==
    [ n : {0, 1},
      mem_size : {0, 1},
      g_epsilon : {MinusOne, Zero},
      past : {-1, 0},
      delta : {MinusOne, Zero},
      max_iterations : {1},
      max_linesearch : {0, 1},
      min_step : {MinusOne, <<1, 4>>},
      max_step : {<<1, 8>>, <<100, 1>>},
      f_dec_coeff : {MinusOne, Zero, Tenth},
      s_curv_coeff : {Zero, Tenth, NineTenths, One},
      xtol : {MinusOne, Zero} ]

\* Valid configurations that vary what the termination tests read.
TestConfigs ==
    [ n : {1},
      mem_size : 1..MaxMem,
      g_epsilon : {Zero, Half},
      past : 0..MaxPast,
      delta : {Zero, <<20, 1>>},
      max_iterations : 0..MaxIter,
      max_linesearch : {MaxLS},
      min_step : {Zero},
      max_step : {<<100, 1>>},
      f_dec_coeff : {Tenth},
      s_curv_coeff : {NineTenths},
      xtol : {Zero} ]

\* Valid configurations that vary what the line search reads.
SearchConfigs ==
    [ n : {1},
      mem_size : {1},
      g_epsilon : {Zero},
      past : {0},
      delta : {Zero},
      max_iterations : {MaxIter},
      max_linesearch : 1..MaxLS,
      min_step : {Zero, <<3, 4>>},
      max_step : {Zero, <<1, 4>>, <<100, 1>>},
      f_dec_coeff : {Zero, Tenth},
      s_curv_coeff : {NineTenths},
      xtol : {Zero} ]

\* ValidationStatus with the g_epsilon check written <= instead of <.
ValidationStatusStrictEpsilon(p) ==
    IF p.n <= 0 THEN <<LBFGSERR_INVALID_N>>
    ELSE IF p.mem_size <= 0 THEN <<LBFGSERR_INVALID_MEMSIZE>>
    ELSE IF Le(p.g_epsilon, Zero) THEN <<LBFGSERR_INVALID_GEPSILON>>
    ELSE IF p.past < 0 THEN <<LBFGSERR_INVALID_TESTPERIOD>>
    ELSE IF Lt(p.delta, Zero) THEN <<LBFGSERR_INVALID_DELTA>>
    ELSE IF Lt(p.min_step, Zero) THEN <<LBFGSERR_INVALID_MINSTEP>>
    ELSE IF Lt(p.max_step, p.min_step) THEN <<LBFGSERR_INVALID_MAXSTEP>>
    ELSE IF Lt(p.f_dec_coeff, Zero) THEN <<LBFGSERR_INVALID_FDECCOEFF>>
    ELSE IF Le(p.s_curv_coeff, p.f_dec_coeff) \/ Le(One, p.s_curv_coeff)
         THEN <<LBFGSERR_INVALID_SCURVCOEFF>>
    ELSE IF Lt(p.xtol, Zero) THEN <<LBFGSERR_INVALID_XTOL>>
    ELSE IF p.max_linesearch <= 0 THEN <<LBFGSERR_INVALID_MAXLINESEARCH>>
    ELSE <<>>

\* The status of the first check that fails (lines 672-716), <<>> if none.
ValidationStatus(p) ==
    IF p.n <= 0 THEN <<LBFGSERR_INVALID_N>>
    ELSE IF p.mem_size <= 0 THEN <<LBFGSERR_INVALID_MEMSIZE>>
    ELSE IF Lt(p.g_epsilon, Zero) THEN <<LBFGSERR_INVALID_GEPSILON>>
    ELSE IF p.past < 0 THEN <<LBFGSERR_INVALID_TESTPERIOD>>
    ELSE IF Lt(p.delta, Zero) THEN <<LBFGSERR_INVALID_DELTA>>
    ELSE IF Lt(p.min_step, Zero) THEN <<LBFGSERR_INVALID_MINSTEP>>
    ELSE IF Lt(p.max_step, p.min_step) THEN <<LBFGSERR_INVALID_MAXSTEP>>
    ELSE IF Lt(p.f_dec_coeff, Zero) THEN <<LBFGSERR_INVALID_FDECCOEFF>>
    ELSE IF Le(p.s_curv_coeff, p.f_dec_coeff) \/ Le(One, p.s_curv_coeff)
         THEN <<LBFGSERR_INVALID_SCURVCOEFF>>
    ELSE IF Lt(p.xtol, Zero) THEN <<LBFGSERR_INVALID_XTOL>>
    ELSE IF p.max_linesearch <= 0 THEN <<LBFGSERR_INVALID_MAXLINESEARCH>>
    ELSE <<>>

(***************************************************************************)
(* Vector arithmetic, n = 1                                                *)
(***************************************************************************)
\* vecdot: *s = 0.; *s += x[0] * y[0]
VecDot(a, b) == Add(Zero, Mul(a, b))

\* vec2norm: sqrt(vecdot(x, x)), the absolute value when n = 1
Vec2Norm(a) == Abs(a)

\* vec2norminv
Vec2NormInv(a) == Div(One, Vec2Norm(a))

\* vecadd: y[0] += c * x[0]
VecAdd(y, a, c) == Add(y, Mul(c, a))

(***************************************************************************)
(* State                                                                   *)
(***************************************************************************)
VARIABLES
    cfg,        \* param and n
    ev,         \* proc_evaluate
    hasSB,      \* proc_stepbound is not NULL
    hasPG,      \* proc_progress is not NULL
    x0,         \* the caller's x at the call
    pc,         \* where lbfgs_optimize stands
    x, g, xp, gp, d,
    fx, step, step_min, step_max,
    k, end, ls, ret,
    xnorm, gnorm,
    lm,         \* the history: slot -> [alpha, s, y, ys]
    pf,         \* the past objective values: slot -> value; empty when NULL
    count, finit, dginit, dgtest,   \* locals of line_search_backtracking
    ptr_fx,     \* what *ptr_fx receives
    nEval, nSB, nPG, nLS,           \* calls made so far
    sbArg,      \* <<xp, d>> handed to the last step-bound call
    sbRet,      \* what the last step-bound call returned
    pgArg,      \* the arguments and the answer of the last progress call
    acc,        \* the last accepted iterate, <<x, g, f>>
    fhist,      \* the objective value accepted at iterations 0, 1, 2, ...
    stag,       \* what the last stagnation stage read, decided and stored
    heap,       \* block -> how often it was allocated and freed
    dangling,   \* reads of a pointer stored in a block already freed
    twoloop,    \* what the last history update wrote and the recursion visited
    written,    \* the history slots written so far, in order
    trials      \* the trials of the current line search: step and value

params == <<cfg, ev, hasSB, hasPG, x0>>
iterate == <<x, g, fx>>
snapshot == <<xp, gp>>
interval == <<step_min, step_max>>
norms == <<xnorm, gnorm>>
lsLocals == <<count, finit, dginit, dgtest, trials>>
calls == <<nEval, nSB, nPG, nLS>>
memory == <<heap, dangling>>
recursion == <<twoloop, written>>
vars == <<cfg, ev, hasSB, hasPG, x0, pc, x, g, xp, gp, d, fx, step, step_min,
          step_max, k, end, ls, ret, xnorm, gnorm, lm, pf, count, finit,
          dginit, dgtest, ptr_fx, nEval, nSB, nPG, nLS, sbArg, sbRet, pgArg,
          acc, fhist, stag, heap, dangling, twoloop, written, trials>>

\* Lines 719-740: the blocks lbfgs_optimize allocates, <<name, slot>>.
Blocks(m) ==
    {<<"xp", 0>>, <<"g", 0>>, <<"gp", 0>>, <<"d", 0>>, <<"lm", 0>>}
        \cup {<<"s", i>> : i \in 0..(m - 1)}
        \cup {<<"y", i>> : i \in 0..(m - 1)}

\* Lines 719-741: the past buffer is allocated only when 0 < past.
Allocated(p) ==
    Blocks(p.mem_size) \cup (IF 0 < p.past THEN {<<"pf", 0>>} ELSE {})

\* Every block a run within the bounds can allocate.
AllBlocks == Blocks(MaxMem) \cup {<<"pf", 0>>}

\* vecalloc, lines 407-415 (malloc gives a block).
VecAlloc(h, b) == [h EXCEPT ![b].allocs = @ + 1]

\* vecfree, lines 417-420: free(NULL) does nothing.
VecFree(h, b) ==
    IF h[b].allocs = 0 THEN h ELSE [h EXCEPT ![b].frees = @ + 1]

Init ==
    /\ \/ /\ cfg \in ValidationConfigs
          /\ ev = "cubic"
          /\ x0 = <<2, 1>>
          /\ hasSB = TRUE
          /\ hasPG = TRUE
       \/ /\ cfg \in TestConfigs
          /\ \E c \in Clients : ev = c[1] /\ x0 = c[2]
          /\ hasSB = FALSE
          /\ hasPG \in BOOLEAN
       \/ /\ cfg \in SearchConfigs
          /\ \E c \in Clients : ev = c[1] /\ x0 = c[2]
          /\ hasSB \in BOOLEAN
          /\ hasPG \in BOOLEAN
          \* with step bounds the fractions of the cubic outgrow the integers
          /\ hasSB => ev # "cubic"
    /\ pc = "validate"
    /\ x = x0
    \* The locals below hold no value yet; none is read before it is assigned.
    /\ g = Zero /\ xp = Zero /\ gp = Zero /\ d = Zero
    /\ fx = Zero
    /\ step = Zero /\ step_min = Zero /\ step_max = Zero
    /\ k = 0 /\ end = 0 /\ ls = 0 /\ ret = 0
    /\ xnorm = Zero /\ gnorm = Zero
    /\ lm = <<>>
    /\ pf = <<>>
    /\ count = 0 /\ finit = Zero /\ dginit = Zero /\ dgtest = Zero
    /\ ptr_fx = <<>>
    /\ nEval = 0 /\ nSB = 0 /\ nPG = 0 /\ nLS = 0
    /\ sbArg = <<>>
    /\ sbRet = <<>>
    /\ pgArg = [x |-> Zero, g |-> Zero, fx |-> Zero, step |-> Zero, k |-> 0,
                ls |-> 0, answer |-> 0, nEval |-> 0]
    /\ acc = <<>>
    /\ fhist = <<>>
    /\ stag = [k |-> 0, on |-> FALSE, tested |-> FALSE, slot |-> 0,
               read |-> Zero, stop |-> FALSE, f |-> Zero]
    /\ heap = [b \in AllBlocks |-> [allocs |-> 0, frees |-> 0]]
    /\ dangling = 0
    /\ twoloop = [k |-> 0, slot |-> 0, bound |-> 0, first |-> <<>>,
                  second |-> <<>>, scale |-> Zero]
    /\ written = <<>>
    /\ trials = <<>>

(***************************************************************************)
(* lbfgs_optimize                                                          *)
(***************************************************************************)
EmptySlot == [alpha |-> Zero, s |-> Zero, y |-> Zero, ys |-> Zero]

\* Lines 672-741: the parameter checks, then the zero-filled working space.
Validate ==
    /\ pc = "validate"
    /\ LET v == ValidationStatus(cfg)
       IN  IF v # <<>>
           THEN /\ ret' = v[1]
                /\ pc' = "return"
                /\ UNCHANGED <<lm, pf, heap>>
           ELSE /\ lm' = [i \in 0..(cfg.mem_size - 1) |-> EmptySlot]
                /\ pf' = [i \in 0..(cfg.past - 1) |-> Zero]
                /\ heap' = [b \in AllBlocks |->
                               IF b \in Allocated(cfg)
                               THEN VecAlloc(heap, b)[b] ELSE heap[b]]
                /\ pc' = "eval0"
                /\ ret' = ret
    /\ UNCHANGED <<dangling, recursion, params, iterate, snapshot, d, step,
                   interval, k, end, ls, norms, lsLocals, ptr_fx, calls,
                   sbArg, sbRet, pgArg, acc, fhist, stag>>

\* GradientTest with < in place of <=.
GradientTestStrict(gn, xn, eps) ==
    Lt(Div(gn, IF Lt(xn, One) THEN One ELSE xn), eps)

\* Lines 764-766 and 830-832: ||g|| / max(1, ||x||) <= g_epsilon
GradientTest(gn, xn, eps) ==
    Le(Div(gn, IF Lt(xn, One) THEN One ELSE xn), eps)

\* Lines 743-779: the first evaluation, at the caller's x.
InitialEvaluate ==
    /\ pc = "eval0"
    /\ LET f0 == EvalF(ev, x)
           g0 == EvalG(ev, x)
           d0 == Neg(g0)
           xn == Vec2Norm(x)
           gn == Vec2Norm(g0)
       IN  /\ fx' = f0
           /\ g' = g0
           /\ nEval' = nEval + 1
           /\ pf' = IF DOMAIN pf # {} THEN [pf EXCEPT ![0] = f0] ELSE pf
           /\ d' = d0
           /\ xnorm' = (IF Lt(xn, One) THEN One ELSE xn)
           /\ gnorm' = gn
           /\ acc' = <<x, g0, f0>>
           /\ fhist' = <<f0>>
           /\ IF GradientTest(gn, xn, cfg.g_epsilon)
              THEN /\ ret' = LBFGS_ALREADY_MINIMIZED
                   /\ pc' = "exit"
                   /\ UNCHANGED <<step, k, end>>
              ELSE /\ step' = Vec2NormInv(d0)
                   /\ k' = 1
                   /\ end' = 0
                   /\ pc' = "iter"
                   /\ ret' = ret
    /\ UNCHANGED <<memory, recursion, params, x, snapshot, interval, ls, lm,
                   lsLocals, ptr_fx, nSB, nPG, nLS, sbArg, sbRet, pgArg,
                   stag>>

\* ApplyStepBound with > in place of >=.
ApplyStepBoundStrict(b, maxstep, stp) ==
    LET smax == IF Lt(b, maxstep) THEN b ELSE maxstep
    IN  <<smax, IF Gt(stp, smax) THEN Div(smax, <<2, 1>>) ELSE stp>>

\* Lines 789-791: the provider's bound clipped to max_step, and the step
\* estimate after it: <<step_max, step>>.
ApplyStepBound(b, maxstep, stp) ==
    LET smax == IF Lt(b, maxstep) THEN b ELSE maxstep
    IN  <<smax, IF Ge(stp, smax) THEN Div(smax, <<2, 1>>) ELSE stp>>

\* The first argument of the step-bound call at line 788.
StepBoundPoint == xp

\* Lines 783-796: the step interval of this iteration, then the snapshot.
IterBegin ==
    /\ pc = "iter"
    /\ k <= MaxK
    /\ step_min' = cfg.min_step
    /\ \/ /\ ~hasSB
          /\ step_max' = cfg.max_step
          /\ UNCHANGED <<step, nSB, sbArg, sbRet>>
       \/ /\ hasSB
          /\ \E b \in StepBounds :
                LET r == ApplyStepBound(b, cfg.max_step, step)
                IN  /\ step_max' = r[1]
                    /\ step' = r[2]
                    /\ sbRet' = <<b>>
          /\ nSB' = nSB + 1
          /\ sbArg' = <<StepBoundPoint, d>>
    /\ xp' = x
    /\ gp' = g
    /\ nLS' = nLS + 1
    /\ pc' = "ls_enter"
    /\ UNCHANGED <<memory, recursion, params, iterate, d, k, end, ls, ret,
                   norms, lm, pf, lsLocals, ptr_fx, nEval, nPG, pgArg, acc,
                   fhist, stag>>

(***************************************************************************)
(* line_search_backtracking                                                *)
(***************************************************************************)
\* Line 520: the direction is refused.
DirectionRefused(dg) == Lt(Zero, dg)

\* Lines 505-527: the checks made before the first trial.
LSEnter ==
    /\ pc = "ls_enter"
    /\ count' = 0
    /\ trials' = <<>>
    /\ IF Le(step, Zero)
       THEN /\ ls' = LBFGSERR_INVALIDPARAMETERS
            /\ pc' = "ls_ret"
            /\ UNCHANGED <<finit, dginit, dgtest>>
       ELSE LET dg == VecDot(gp, d)
            IN  /\ dginit' = dg
                /\ IF DirectionRefused(dg)
                   THEN /\ ls' = LBFGSERR_INCREASEGRADIENT
                        /\ pc' = "ls_ret"
                        /\ UNCHANGED <<finit, dgtest>>
                   ELSE /\ finit' = fx
                        /\ dgtest' = Mul(cfg.f_dec_coeff, dg)
                        /\ pc' = "ls_trial"
                        /\ ls' = ls
    /\ UNCHANGED <<memory, recursion, params, iterate, snapshot, d, step,
                   interval, k, end, ret, norms, lm, pf, ptr_fx, calls, sbArg,
                   sbRet, pgArg, acc, fhist, stag>>

\* dec set to a quarter.
decQuarter == <<1, 4>>

\* Line 508: the factor a rejected step is multiplied by.
dec == <<1, 2>>

\* Line 539, negated: the trial is accepted.
SufficientDecrease(f, f0, stp, dgt) == ~Gt(f, Add(f0, Mul(stp, dgt)))

\* GiveUp with the trial budget tested by < instead of <=.
GiveUpLate(stp, smin, smax, cnt, maxls) ==
    IF Lt(stp, smin) THEN <<LBFGSERR_MINIMUMSTEP>>
    ELSE IF Gt(stp, smax) THEN <<LBFGSERR_MAXIMUMSTEP>>
    ELSE IF maxls < cnt THEN <<LBFGSERR_MAXIMUMLINESEARCH>>
    ELSE <<>>

\* Lines 548-562: why the search gives up after a rejected trial, <<>> if it
\* goes on.
GiveUp(stp, smin, smax, cnt, maxls) ==
    IF Lt(stp, smin) THEN <<LBFGSERR_MINIMUMSTEP>>
    ELSE IF Gt(stp, smax) THEN <<LBFGSERR_MAXIMUMSTEP>>
    ELSE IF maxls <= cnt THEN <<LBFGSERR_MAXIMUMLINESEARCH>>
    ELSE <<>>

\* Lines 531-564: one pass of the loop, with its call of the evaluator.
LSTrial ==
    /\ pc = "ls_trial"
    /\ LET xt == VecAdd(xp, d, step)
           ft == EvalF(ev, xt)
           gt == EvalG(ev, xt)
           c == count + 1
           why == GiveUp(step, step_min, step_max, c, cfg.max_linesearch)
       IN  /\ x' = xt
           /\ fx' = ft
           /\ g' = gt
           /\ nEval' = nEval + 1
           /\ count' = c
           /\ trials' = Append(trials, [step |-> step, f |-> ft])
           /\ IF SufficientDecrease(ft, finit, step, dgtest)
              THEN /\ ls' = c
                   /\ pc' = "ls_ret"
                   /\ step' = step
              ELSE IF why # <<>>
              THEN /\ ls' = why[1]
                   /\ pc' = "ls_ret"
                   /\ step' = step
              ELSE /\ step' = Mul(step, dec)
                   /\ pc' = "ls_trial"
                   /\ ls' = ls
    /\ UNCHANGED <<memory, recursion, params, snapshot, d, interval, k, end,
                   ret, norms, lm, pf, finit, dginit, dgtest, ptr_fx, nSB,
                   nPG, nLS, sbArg, sbRet, pgArg, acc, fhist, stag>>

(***************************************************************************)
(* lbfgs_optimize, after the search                                        *)
(***************************************************************************)
\* RevertedPoint without the two copies: x and g stay at the last trial.
RevertedPointKeepsTrial == <<x, g>>

\* Lines 804-805: what x and g are after a failed search.
RevertedPoint == <<xp, gp>>

\* Lines 801-809: the search failed.
LineSearchFailed ==
    /\ pc = "ls_ret"
    /\ ls < 0
    /\ x' = RevertedPoint[1]
    /\ g' = RevertedPoint[2]
    /\ ret' = ls
    /\ pc' = "exit"
    /\ UNCHANGED <<memory, recursion, params, fx, snapshot, d, step, interval,
                   k, end, ls, norms, lm, pf, lsLocals, ptr_fx, calls, sbArg,
                   sbRet, pgArg, acc, fhist, stag>>

\* Lines 811-823: the norms, then the progress report.
Progress ==
    /\ pc = "ls_ret"
    /\ ~(ls < 0)
    /\ xnorm' = Vec2Norm(x)
    /\ gnorm' = Vec2Norm(g)
    /\ acc' = <<x, g, fx>>
    /\ fhist' = Append(fhist, fx)
    /\ \/ /\ ~hasPG
          /\ pc' = "test"
          /\ UNCHANGED <<ret, nPG, pgArg>>
       \/ /\ hasPG
          /\ \E a \in ProgressAnswers :
                /\ pgArg' = [x |-> x, g |-> g, fx |-> fx, step |-> step,
                             k |-> k, ls |-> ls, answer |-> a,
                             nEval |-> nEval]
                /\ ret' = a
                /\ pc' = IF a # 0 THEN "exit" ELSE "test"
          /\ nPG' = nPG + 1
    /\ UNCHANGED <<memory, recursion, params, iterate, snapshot, d, step,
                   interval, k, end, ls, lm, pf, lsLocals, ptr_fx, nEval, nSB,
                   nLS, sbArg, sbRet, stag>>

\* Line 847: the stagnation test is made in iteration kk.
StagnationDue(past, kk) == past <= kk

\* PastSlot one slot further.
PastSlotShifted(kk, past) == (kk + 1) % past

\* Lines 850 and 861: the slot of the past buffer used in iteration kk.
PastSlot(kk, past) == kk % past

\* Lines 850-853: fabs((old - f) / f) < delta
Stagnated(old, f, delta) == Lt(Abs(Div(Sub(old, f), f)), delta)

\* CapReached one iteration late.
CapReachedLate(maxit, kk) == maxit # 0 /\ maxit < kk

\* Line 864: the iteration cap fires at the end of iteration kk.
CapReached(maxit, kk) == maxit # 0 /\ maxit < kk + 1

\* Lines 825-869: the convergence test, the stagnation test, the cap.
Tests ==
    /\ pc = "test"
    /\ xnorm' = (IF Lt(xnorm, One) THEN One ELSE xnorm)
    /\ LET conv == GradientTest(gnorm, xnorm, cfg.g_epsilon)
           on == DOMAIN pf # {}
           due == on /\ StagnationDue(cfg.past, k)
           slot == IF on THEN PastSlot(k, cfg.past) ELSE 0
           old == IF on THEN pf[slot] ELSE Zero
           stop == due /\ Stagnated(old, fx, cfg.delta)
       IN  IF conv
           THEN /\ ret' = LBFGS_CONVERGENCE
                /\ pc' = "exit"
                /\ UNCHANGED <<pf, stag>>
           ELSE /\ stag' = [k |-> k, on |-> on, tested |-> due, slot |-> slot,
                            read |-> old, stop |-> stop, f |-> fx]
                /\ IF stop
                   THEN /\ ret' = LBFGS_STOP
                        /\ pc' = "exit"
                        /\ pf' = pf
                   ELSE /\ pf' = IF on THEN [pf EXCEPT ![slot] = fx] ELSE pf
                        /\ IF CapReached(cfg.max_iterations, k)
                           THEN /\ ret' = LBFGSERR_MAXIMUMITERATION
                                /\ pc' = "exit"
                           ELSE /\ pc' = "update"
                                /\ ret' = ret
    /\ UNCHANGED <<memory, recursion, params, iterate, snapshot, d, step,
                   interval, k, end, ls, gnorm, lm, lsLocals, ptr_fx, calls,
                   sbArg, sbRet, pgArg, acc, fhist>>

\* Lines 905-915: the first loop of the recursion, from the newest slot back.
\* Gives <<d, lm, j, slots visited>> after the passes i, i+1, ..., bnd-1.
RECURSIVE FirstLoop(_, _, _, _, _, _)
FirstLoop(i, bnd, j, dd, mem, seen) ==
    IF i >= bnd THEN <<dd, mem, j, seen>>
    ELSE LET jj == (j + cfg.mem_size - 1) % cfg.mem_size
             a == Div(VecDot(mem[jj].s, dd), mem[jj].ys)
         IN  FirstLoop(i + 1, bnd, jj, VecAdd(dd, mem[jj].y, Neg(a)),
                       [mem EXCEPT ![jj].alpha = a], Append(seen, jj))

\* Lines 919-928: the second loop, from the oldest slot forward.
RECURSIVE SecondLoop(_, _, _, _, _, _)
SecondLoop(i, bnd, j, dd, mem, seen) ==
    IF i >= bnd THEN <<dd, mem, j, seen>>
    ELSE LET beta == Div(VecDot(mem[j].y, dd), mem[j].ys)
         IN  SecondLoop(i + 1, bnd, (j + 1) % cfg.mem_size,
                        VecAdd(dd, mem[j].s, Sub(mem[j].alpha, beta)), mem,
                        Append(seen, j))

\* Bound without the comparison with k.
BoundAlwaysM(m, kk) == m

\* Line 898
Bound(m, kk) == IF m <= kk THEN m ELSE kk

\* Lines 871-933: the new history pair, then the next direction.
UpdateDirection ==
    /\ pc = "update"
    /\ LET s1 == Sub(x, xp)
           y1 == Sub(g, gp)
           ys == VecDot(y1, s1)
           yy == VecDot(y1, y1)
           lm1 == [lm EXCEPT ![end] = [@ EXCEPT !.s = s1, !.y = y1, !.ys = ys]]
           bnd == Bound(cfg.mem_size, k)
           end1 == (end + 1) % cfg.mem_size
           r1 == FirstLoop(0, bnd, end1, Neg(g), lm1, <<>>)
           r2 == SecondLoop(0, bnd, r1[3], Mul(r1[1], Div(ys, yy)), r1[2],
                            <<>>)
       IN  /\ k' = k + 1
           /\ end' = end1
           /\ lm' = r2[2]
           /\ d' = r2[1]
           /\ twoloop' = [k |-> k, slot |-> end, bound |-> bnd,
                          first |-> r1[4], second |-> r2[4],
                          scale |-> Div(ys, yy)]
           /\ written' = Append(written, end)
    /\ step' = One
    /\ pc' = "iter"
    /\ UNCHANGED <<memory, params, iterate, snapshot, interval, ls, ret,
                   norms, pf, lsLocals, ptr_fx, calls, sbArg, sbRet, pgArg,
                   acc, fhist, stag>>

\* Lines 948-952: the two vectors of every history slot, in the loop's order.
RECURSIVE SlotBlocks(_, _)
SlotBlocks(i, m) ==
    IF i >= m THEN <<>>
    ELSE <<<<"s", i>>, <<"y", i>>>> \o SlotBlocks(i + 1, m)

\* ReleaseOrder without the loop over the history slots.
ReleaseOrderNoSlots(h, m) ==
    <<<<"pf", 0>>>>
        \o (IF h[<<"lm", 0>>].allocs # 0 THEN <<<<"lm", 0>>>> ELSE <<>>)
        \o <<<<"d", 0>>, <<"gp", 0>>, <<"g", 0>>, <<"xp", 0>>>>

\* Lines 943-958: the pointers handed to vecfree, in order.
ReleaseOrder(h, m) ==
    <<<<"pf", 0>>>>
        \o (IF h[<<"lm", 0>>].allocs # 0
            THEN SlotBlocks(0, m) \o <<<<"lm", 0>>>>
            ELSE <<>>)
        \o <<<<"d", 0>>, <<"gp", 0>>, <<"g", 0>>, <<"xp", 0>>>>

\* Lines 943-958 carried out: <<heap, dangling>> after the calls of vecfree.
\* The pointers lm[i].s and lm[i].y are read from the block lm.
RECURSIVE Release(_, _, _)
Release(order, h, bad) ==
    IF order = <<>> THEN <<h, bad>>
    ELSE LET b == Head(order)
             stale == b[1] \in {"s", "y"} /\ h[<<"lm", 0>>].frees # 0
         IN  Release(Tail(order), VecFree(h, b),
                     IF stale THEN bad + 1 ELSE bad)

\* Lines 937-960: the final objective value is handed back, the working
\* space is released, and the status is returned.
Exit ==
    /\ pc = "exit"
    /\ ptr_fx' = <<fx>>
    /\ LET r == Release(ReleaseOrder(heap, cfg.mem_size), heap, dangling)
       IN  /\ heap' = r[1]
           /\ dangling' = r[2]
    /\ pc' = "return"
    /\ UNCHANGED <<recursion, params, iterate, snapshot, d, step, interval, k,
                   end, ls, ret, norms, lm, pf, lsLocals, calls, sbArg, sbRet,
                   pgArg, acc, fhist, stag>>

Next ==
    \/ Validate
    \/ InitialEvaluate
    \/ IterBegin
    \/ LSEnter
    \/ LSTrial
    \/ LineSearchFailed
    \/ Progress
    \/ Tests
    \/ UpdateDirection
    \/ Exit

Spec == Init /\ [][Next]_vars

(***************************************************************************)
(* C1  A call that returns an LBFGSERR_INVALID_* status has called neither *)
(* the evaluator, nor the step-bound provider, nor the progress callback,  *)
(* has left x as the caller passed it, and the status names a field whose  *)
(* value is outside its domain.                                            *)
(***************************************************************************)
FieldViolated(status, p) ==
    CASE status = LBFGSERR_INVALID_N -> p.n <= 0
      [] status = LBFGSERR_INVALID_MEMSIZE -> p.mem_size <= 0
      [] status = LBFGSERR_INVALID_GEPSILON -> p.g_epsilon[1] < 0
      [] status = LBFGSERR_INVALID_TESTPERIOD -> p.past < 0
      [] status = LBFGSERR_INVALID_DELTA -> p.delta[1] < 0
      [] status = LBFGSERR_INVALID_MINSTEP -> p.min_step[1] < 0
      [] status = LBFGSERR_INVALID_MAXSTEP -> Lt(p.max_step, p.min_step)
      [] status = LBFGSERR_INVALID_FDECCOEFF -> p.f_dec_coeff[1] < 0
      [] status = LBFGSERR_INVALID_SCURVCOEFF ->
            ~(Lt(p.f_dec_coeff, p.s_curv_coeff) /\ Lt(p.s_curv_coeff, One))
      [] status = LBFGSERR_INVALID_XTOL -> p.xtol[1] < 0
      [] status = LBFGSERR_INVALID_MAXLINESEARCH -> p.max_linesearch <= 0

C1_InvalidCallTouchesNothing ==
    (pc = "return" /\ ret \in InvalidStatuses) =>
        /\ nEval = 0
        /\ nSB = 0
        /\ nPG = 0
        /\ x = x0
        /\ FieldViolated(ret, cfg)

C1_Witness ==
    /\ pc = "return"
    /\ ret = LBFGSERR_INVALID_SCURVCOEFF
    /\ cfg.s_curv_coeff = Tenth
    /\ cfg.f_dec_coeff = Tenth
    /\ hasSB /\ hasPG
    /\ x = x0

(***************************************************************************)
(* C2  Every configuration whose f_dec_coeff is <= 0, or whose             *)
(* s_curv_coeff is <= f_dec_coeff or >= 1, is rejected with                *)
(* LBFGSERR_INVALID_FDECCOEFF or LBFGSERR_INVALID_SCURVCOEFF before the    *)
(* first evaluator call (every other field being inside its domain).       *)
(***************************************************************************)
OtherFieldsValid(p) ==
    /\ p.n > 0
    /\ p.mem_size > 0
    /\ p.g_epsilon[1] >= 0
    /\ p.past >= 0
    /\ p.delta[1] >= 0
    /\ p.min_step[1] >= 0
    /\ Le(p.min_step, p.max_step)
    /\ p.xtol[1] >= 0
    /\ p.max_linesearch > 0

CoefficientsOutsideDomain(p) ==
    \/ Le(p.f_dec_coeff, Zero)
    \/ Le(p.s_curv_coeff, p.f_dec_coeff)
    \/ Ge(p.s_curv_coeff, One)

C2_CoefficientDomainEnforced ==
    (pc # "validate" /\ OtherFieldsValid(cfg) /\ CoefficientsOutsideDomain(cfg))
        => /\ pc = "return"
           /\ ret \in {LBFGSERR_INVALID_FDECCOEFF, LBFGSERR_INVALID_SCURVCOEFF}
           /\ nEval = 0

(***************************************************************************)
(* C3  Whenever the line search returns a positive count, the accepted     *)
(* step lies in [step_min, step_max] of this iteration and                 *)
(* f(xp + step*d) <= f(xp) + f_dec_coeff * step * (gp.d).                  *)
(***************************************************************************)
C3_AcceptedStepInBounds ==
    (pc = "ls_ret" /\ ls > 0) =>
        /\ Le(step_min, step)
        /\ Le(step, step_max)
        /\ Le(fx, Add(finit, Mul(cfg.f_dec_coeff, Mul(step, VecDot(gp, d)))))

(***************************************************************************)
(* C4  When a line search fails, lbfgs_optimize returns the status of that *)
(* search, and x and g are the snapshot (xp, gp) taken before it, which is *)
(* the last accepted iterate.                                              *)
(***************************************************************************)
C4_FailedSearchRestores ==
    (pc \in {"exit", "return"} /\ ls < 0) =>
        /\ ls \in LineSearchErrors
        /\ ret = ls
        /\ <<x, g>> = <<xp, gp>>
        /\ <<x, g>> = <<acc[1], acc[2]>>

\* A search that failed in a later iteration after trying a point other than
\* the snapshot.
C4_Witness ==
    /\ pc = "return"
    /\ ls = LBFGSERR_MAXIMUMLINESEARCH
    /\ k >= 2
    /\ count >= 1
    /\ VecAdd(xp, d, step) # xp
    /\ x # x0

(***************************************************************************)
(* C5  A line search entered with step > 0 and gp.d >= 0 returns           *)
(* LBFGSERR_INCREASEGRADIENT without a trial, so that every evaluator call *)
(* of a line search is made with gp.d < 0.                                 *)
(***************************************************************************)
C5_TrialsOnlyDownhill ==
    /\ pc = "ls_trial" => Lt(VecDot(gp, d), Zero)
    /\ (pc = "ls_ret" /\ Gt(step, Zero) /\ count = 0 /\ Ge(VecDot(gp, d), Zero))
           => ls = LBFGSERR_INCREASEGRADIENT

(***************************************************************************)
(* C6  When the progress callback returns a non-zero value, lbfgs_optimize *)
(* returns LBFGSERR_CANCELED, calls the evaluator no more, and leaves x as *)
(* it was handed to that callback invocation.                              *)
(***************************************************************************)
C6_CancelReturnsCanceled ==
    (pc = "return" /\ nPG > 0 /\ pgArg.answer # 0) =>
        /\ ret = LBFGSERR_CANCELED
        /\ nEval = pgArg.nEval
        /\ x = pgArg.x

(***************************************************************************)
(* C7  If ||g|| / max(1, ||x||) <= g_epsilon holds at the caller's x0, a   *)
(* validated call ends with LBFGS_ALREADY_MINIMIZED after exactly one      *)
(* evaluator call, with no line search, no step-bound call, no progress    *)
(* call, and x unchanged.                                                  *)
(***************************************************************************)
MinimalAtStart ==
    LET gn == Abs(EvalG(ev, x0))
        xn == Abs(x0)
        den == IF xn[1] < xn[2] THEN One ELSE xn
    IN  gn[1] * den[2] * cfg.g_epsilon[2] <= cfg.g_epsilon[1] * gn[2] * den[1]

C8_StepBoundGetsCurrentPoint ==
    (pc = "ls_enter" /\ hasSB) => sbArg = <<xp, d>>

(***************************************************************************)
(* C9  With max_iterations = N > 0 at most N line searches are started and *)
(* the progress callback is called at most N times; a run that reaches the *)
(* end of iteration N ends there with LBFGSERR_MAXIMUMITERATION; and with  *)
(* max_iterations = 0 that status is never returned.                       *)
(***************************************************************************)
C9_IterationCap ==
    /\ cfg.max_iterations > 0 =>
          /\ nLS <= cfg.max_iterations
          /\ nPG <= cfg.max_iterations
          /\ pc = "update" => k < cfg.max_iterations
    /\ (pc \in {"exit", "return"} /\ ret = LBFGSERR_MAXIMUMITERATION) =>
          /\ cfg.max_iterations > 0
          /\ k = cfg.max_iterations
          /\ nLS = cfg.max_iterations

C9_Witness ==
    /\ pc = "return"
    /\ ret = LBFGSERR_MAXIMUMITERATION
    /\ cfg.max_iterations = 2
    /\ nLS = 2
    /\ nPG = 2

(***************************************************************************)
(* C10  With past = P > 0 the stagnation test is skipped in the iterations *)
(* k < P and made in the iterations k >= P that reach it; the value it     *)
(* reads from slot k mod P is the objective value accepted at iteration    *)
(* k - P (iteration 0 being the evaluation at x0); the run ends with       *)
(* LBFGS_STOP exactly when |(that value - f) / f| < delta; and an          *)
(* iteration that passes or skips the test leaves f in slot k mod P.       *)
(***************************************************************************)
\* |(old - f) / f| < delta over the reals, f a non-zero number
RelativeChangeBelow(old, f, delta) ==
    /\ IsFinite(f) /\ IsFinite(old) /\ f[1] # 0
    /\ LET diff == Abs(Sub(old, f))
       IN  diff[1] * delta[2] * Abs(f)[2] < delta[1] * Abs(f)[1] * diff[2]

NotCanceled == nPG = 0 \/ pgArg.answer = 0

ScratchBlocks ==
    {<<"xp", 0>>, <<"g", 0>>, <<"gp", 0>>, <<"d", 0>>, <<"lm", 0>>}
        \cup {b \in AllBlocks : b[1] \in {"s", "y"} /\ b[2] < cfg.mem_size}
        \cup {b \in AllBlocks : b[1] = "pf" /\ cfg.past > 0}

C11_ReleasedExactlyOnce ==
    /\ \A b \in AllBlocks :
          /\ heap[b].allocs <= 1
          /\ heap[b].frees <= heap[b].allocs
    /\ dangling = 0
    \* while the body runs its blocks are there and none is freed
    /\ pc \notin {"validate", "return"} =>
          \A b \in AllBlocks :
             /\ heap[b].allocs = (IF b \in ScratchBlocks THEN 1 ELSE 0)
             /\ heap[b].frees = 0
    \* at the return nothing is left
    /\ pc = "return" =>
          \A b \in AllBlocks :
             /\ heap[b].frees = heap[b].allocs
             /\ ret \notin InvalidStatuses =>
                   heap[b].allocs = (IF b \in ScratchBlocks THEN 1 ELSE 0)

\* A run canceled in the loop, with two history slots and a past buffer.
C11_Witness ==
    /\ pc = "return"
    /\ nPG > 0 /\ pgArg.answer # 0
    /\ cfg.mem_size = 2 /\ cfg.past = 2
    /\ \A b \in AllBlocks : heap[b].frees = 1

(***************************************************************************)
(* C12  The progress callback is invoked exactly once for each iteration   *)
(* whose line search succeeded and never while a line search is in         *)
(* progress, with iteration numbers 1, 2, 3, ... in order and with ls the  *)
(* number of evaluator calls that iteration's line search made; so at most *)
(* max_linesearch evaluator calls occur between two consecutive            *)
(* opportunities to cancel.                                                *)
(***************************************************************************)
\* The evaluator calls made when the callback last had the opportunity to
\* cancel (before the first invocation: the initial evaluation).
EvalsAtLastOpportunity == IF nPG = 0 THEN 1 ELSE pgArg.nEval

ProgressCountsIterations ==
    (hasPG /\ pc \notin {"validate", "eval0", "exit", "return"}) =>
        /\ pc \in {"test", "update"} => nPG = k
        /\ pc \in {"iter", "ls_enter", "ls_trial", "ls_ret"} => nPG = k - 1
        /\ nEval - EvalsAtLastOpportunity <= cfg.max_linesearch

ProgressCallStep ==
    nPG' # nPG =>
        /\ nPG' = nPG + 1
        /\ pc = "ls_ret" /\ ls > 0
        /\ pgArg'.k = nPG'
        /\ pgArg'.ls = nEval - EvalsAtLastOpportunity
        /\ pgArg'.ls <= cfg.max_linesearch
        /\ pgArg'.x = x /\ pgArg'.fx = fx

C12_ProgressOncePerIteration ==
    [](ProgressCountsIterations /\ (~hasPG => nPG = 0))
        /\ [][ProgressCallStep]_vars

\* The callback's second invocation, after a search of two trials.
C12_Witness ==
    /\ nPG = 2
    /\ pgArg.k = 2
    /\ pgArg.ls = 2
    /\ pc = "test"

(***************************************************************************)
(* C13  With max_iterations = N > 0 every run of lbfgs_optimize ends (each *)
(* callback returning), and it calls the evaluator at most                 *)
(* 1 + N * max_linesearch times.                                           *)
(***************************************************************************)
\* What is left to do, in steps: the iterations left, each worth a whole
\* pass of the loop body, then the place in the current pass.
PassLength == cfg.max_linesearch + 5

Rank ==
    LET left == (cfg.max_iterations - k + 1) * PassLength
    IN  CASE pc = "validate" -> (cfg.max_iterations + 1) * PassLength + 3
          [] pc = "eval0" -> (cfg.max_iterations + 1) * PassLength + 2
          [] pc = "iter" -> left + cfg.max_linesearch + 6
          [] pc = "ls_enter" -> left + cfg.max_linesearch + 5
          [] pc = "ls_trial" -> left + 4 + (cfg.max_linesearch - count)
          [] pc = "ls_ret" -> left + 4
          [] pc = "test" -> left + 3
          [] pc = "update" -> left + 2
          [] pc = "exit" -> 1
          [] pc = "return" -> 0

EvaluationsBounded ==
    cfg.max_iterations > 0 =>
        /\ nEval <= 1 + cfg.max_iterations * cfg.max_linesearch
        /\ nLS <= cfg.max_iterations
        /\ Rank >= 0
        \* the loop body never runs for an iteration beyond the cap
        /\ pc \in {"iter", "ls_enter", "ls_trial", "ls_ret", "test"} =>
              k \in 1..cfg.max_iterations
        /\ pc = "update" => k \in 1..(cfg.max_iterations - 1)
        /\ pc = "ls_trial" => count < cfg.max_linesearch

\* Every step brings the return nearer, so no run goes on for ever.
C13_TerminatesWithinBudget ==
    []EvaluationsBounded
        /\ [][cfg.max_iterations > 0 => Rank' < Rank]_vars

\* A run that used the whole budget and ended at the cap.
C13_Witness ==
    /\ pc = "return"
    /\ ret = LBFGSERR_MAXIMUMITERATION
    /\ cfg.max_iterations = 2
    /\ nEval = 1 + cfg.max_iterations * cfg.max_linesearch

(***************************************************************************)
(* C14  History ring buffer: at the start of iteration k the write index   *)
(* satisfies 0 <= end < m and end = (k-1) mod m; the pair (s, y, ys) of    *)
(* iteration k is written to slot end before end advances by one modulo m; *)
(* the recursion that follows visits exactly min(k, m) slots, the ones     *)
(* most recently written (never one not written in this run), pass 1 from  *)
(* the most recent to the oldest and pass 2 over the same slots from the   *)
(* oldest to the most recent; the scaling ys/yy uses the pair written in   *)
(* this iteration.                                                         *)
(***************************************************************************)
Min(a, b) == IF a <= b THEN a ELSE b

\* The last n elements of a sequence, last first.
NewestFirst(q, n) == [i \in 1..n |-> q[Len(q) + 1 - i]]

Reversed(q) == [i \in 1..Len(q) |-> q[Len(q) + 1 - i]]

C14_HistoryRingBuffer ==
    /\ pc \in {"iter", "ls_enter", "ls_trial", "ls_ret", "test", "update"} =>
          /\ 0 <= end /\ end < cfg.mem_size
          /\ end = (k - 1) % cfg.mem_size
          /\ Len(written) = k - 1
    \* right after the update that ended iteration k - 1
    /\ (pc = "iter" /\ k > 1) =>
          /\ twoloop.k = k - 1
          /\ twoloop.slot = (k - 2) % cfg.mem_size
          /\ written[Len(written)] = twoloop.slot
          /\ end = (twoloop.slot + 1) % cfg.mem_size
          /\ lm[twoloop.slot].s = Sub(x, xp)
          /\ lm[twoloop.slot].y = Sub(g, gp)
          /\ lm[twoloop.slot].ys = Mul(Sub(g, gp), Sub(x, xp))
          /\ twoloop.bound = Min(twoloop.k, cfg.mem_size)
          /\ Len(twoloop.first) = twoloop.bound
          /\ twoloop.first = NewestFirst(written, twoloop.bound)
          /\ twoloop.second = Reversed(twoloop.first)
          /\ \A i \in 1..twoloop.bound :
                twoloop.first[i] = (twoloop.k - i) % cfg.mem_size
          /\ twoloop.scale = Div(lm[twoloop.slot].ys,
                                 Mul(lm[twoloop.slot].y, lm[twoloop.slot].y))

\* The third update with two slots: slot 0 is written a second time and the
\* recursion goes over slot 0, then slot 1, and back.
C14_Witness ==
    /\ pc = "iter"
    /\ k = 4
    /\ cfg.mem_size = 2
    /\ written = <<0, 1, 0>>
    /\ twoloop.first = <<0, 1>>
    /\ twoloop.second = <<1, 0>>

(***************************************************************************)
(* C15  A line search whose entry checks pass calls the evaluator at least *)
(* once and at most max_linesearch times; after a trial that fails         *)
(* sufficient decrease it returns MinimumStepReached if that trial's step  *)
(* is below stepmin, else MaximumStepReached if it is above stepmax, else  *)
(* MaximumLineSearchEvaluationsReached if the trial count has reached      *)
(* max_linesearch, and otherwise halves the step and retries: the trial    *)
(* steps are step0, step0/2, step0/4, ...                                  *)
(***************************************************************************)
EntryChecksPassed ==
    ls \notin {LBFGSERR_INVALIDPARAMETERS, LBFGSERR_INCREASEGRADIENT}

\* The trial did not give sufficient decrease.
Rejected(t) == Gt(t.f, Add(finit, Mul(t.step, dgtest)))

InsideInterval(t) == ~Lt(t.step, step_min) /\ ~Gt(t.step, step_max)

C15_TrialSequence ==
    /\ pc \in {"ls_trial", "ls_ret"} =>
          /\ Len(trials) = count
          /\ Len(trials) <= cfg.max_linesearch
          /\ \A i \in 1..(Len(trials) - 1) :
                /\ trials[i + 1].step = Div(trials[i].step, <<2, 1>>)
                /\ Rejected(trials[i])
                /\ InsideInterval(trials[i])
                /\ i < cfg.max_linesearch
    /\ pc = "ls_trial" =>
          /\ count < cfg.max_linesearch
          /\ count > 0 => step = Div(trials[count].step, <<2, 1>>)
    /\ (pc = "ls_ret" /\ EntryChecksPassed) =>
          LET last == trials[Len(trials)]
          IN  /\ Len(trials) >= 1
              /\ last.step = step
              /\ ~Rejected(last) => ls = Len(trials)
              /\ Rejected(last) =>
                    ls = (IF Lt(last.step, step_min)
                          THEN LBFGSERR_MINIMUMSTEP
                          ELSE IF Gt(last.step, step_max)
                          THEN LBFGSERR_MAXIMUMSTEP
                          ELSE LBFGSERR_MAXIMUMLINESEARCH)
              /\ ls = LBFGSERR_MAXIMUMLINESEARCH =>
                    Len(trials) = cfg.max_linesearch
    /\ (pc = "ls_ret" /\ ~EntryChecksPassed) => trials = <<>>

\* A search that used its two trials, the second at half the first step, and
\* found no sufficient decrease.
C15_Witness ==
    /\ pc = "ls_ret"
    /\ ls = LBFGSERR_MAXIMUMLINESEARCH
    /\ Len(trials) = 2
    /\ trials[2].step = Div(trials[1].step, <<2, 1>>)

(***************************************************************************)
(* C16  Step bounding at the start of an iteration.  With a step-bound     *)
(* provider the upper bound used is min(provider value, max_step); a step  *)
(* estimate >= that bound is replaced, any other is left unchanged.        *)
(* Without a provider the step estimate is not altered and the bounds are  *)
(* the configured [min_step, max_step].  Every iteration after the first   *)
(* enters this stage with step estimate 1.0.                               *)
(***************************************************************************)
\* The step from the head of the loop body to the call of the line search.
BoundingStage == pc = "iter" /\ pc' = "ls_enter"

UpperBoundUsed == IF Lt(sbRet'[1], cfg.max_step) THEN sbRet'[1]
                  ELSE cfg.max_step

\* What the stage does apart from replacing a step estimate >= the bound.
BoundingFrame ==
    /\ step_min' = cfg.min_step
    /\ k > 1 => step = One
    /\ ~hasSB =>
          /\ step' = step
          /\ step_max' = cfg.max_step
          /\ nSB' = nSB
    /\ hasSB =>
          /\ nSB' = nSB + 1
          /\ step_max' = UpperBoundUsed
          /\ Lt(step, step_max') => step' = step

\* As claimed: a step estimate >= the bound is halved (step becomes step/2).
C16_StepEstimateHalved ==
    [][BoundingStage =>
          /\ BoundingFrame
          /\ (hasSB /\ Ge(step, step_max')) =>
                step' = Div(step, <<2, 1>>)]_vars

\* As the code has it: a step estimate >= the bound becomes half the bound.
C16_StepSetToHalfBound ==
    [][BoundingStage =>
          /\ BoundingFrame
          /\ (hasSB /\ Ge(step, step_max')) =>
                step' = Div(step_max', <<2, 1>>)]_vars

\* The second iteration enters with step 1.0, the provider answers 1/4: the
\* search starts from 1/8, half the bound, not from 1/2, half the step.
C16_Witness ==
    /\ pc = "ls_enter"
    /\ hasSB
    /\ k = 2
    /\ sbRet = <<<<1, 4>>>>
    /\ step_max = <<1, 4>>
    /\ step = <<1, 8>>

(***************************************************************************)
(* C17  After each successful line search the driver applies its           *)
(* termination tests in the order progress/cancel, gradient convergence,   *)
(* stagnation, iteration cap, and ends with the status of the first test   *)
(* that fires.  The run returns LBFGS_CONVERGENCE only at a point where    *)
(* ||g|| / max(1, ||x||) <= g_epsilon; an iteration that satisfies the     *)
(* gradient test returns it even when it is the max_iterations-th; the     *)
(* history update and the new direction happen only when no test fired.    *)
(***************************************************************************)
ConvergedAt(xx, gg) ==
    Le(Div(Abs(gg), IF Lt(Abs(xx), One) THEN One ELSE Abs(xx)), cfg.g_epsilon)

StagnatedNow ==
    /\ cfg.past > 0
    /\ k >= cfg.past
    /\ RelativeChangeBelow(fhist[k - cfg.past + 1], fx, cfg.delta)

AtCap == cfg.max_iterations # 0 /\ k >= cfg.max_iterations

\* The callback's answer to this iteration, 0 when there is no callback.
Answered == IF hasPG THEN pgArg'.answer ELSE 0

\* The status line 818 leaves in ret when the callback cancels.
AfterSearchAsCoded ==
    (pc = "ls_ret" /\ ls > 0) =>
        IF Answered # 0
        THEN pc' = "exit" /\ ret' = Answered
        ELSE pc' = "test"

\* The status of the cancel test is LBFGSERR_CANCELED.
AfterSearch ==
    (pc = "ls_ret" /\ ls > 0) =>
        IF Answered # 0
        THEN pc' = "exit" /\ ret' = LBFGSERR_CANCELED
        ELSE pc' = "test"

AfterProgress ==
    pc = "test" =>
        IF ConvergedAt(x, g)
        THEN pc' = "exit" /\ ret' = LBFGS_CONVERGENCE
        ELSE IF StagnatedNow
        THEN pc' = "exit" /\ ret' = LBFGS_STOP
        ELSE IF AtCap
        THEN pc' = "exit" /\ ret' = LBFGSERR_MAXIMUMITERATION
        ELSE pc' = "update"

OnlyWhenNoTestFired ==
    (<<lm, d, end, k>> # <<lm', d', end', k'>> /\ pc \notin {"validate", "eval0"})
        => /\ pc = "update"
           /\ ~ConvergedAt(x, g) /\ ~StagnatedNow /\ ~AtCap
           /\ hasPG => pgArg.answer = 0

ConvergenceOnlyWhereConverged ==
    (pc \in {"exit", "return"} /\ ret = LBFGS_CONVERGENCE) =>
        /\ ConvergedAt(x, g)
        /\ nLS > 0

C17_TestOrder ==
    []ConvergenceOnlyWhereConverged
        /\ [][AfterSearch /\ AfterProgress /\ OnlyWhenNoTestFired]_vars

\* What holds of the code: the same, the canceled run ending with whatever
\* the callback returned.
TestOrderWithCallbackStatus ==
    []ConvergenceOnlyWhereConverged
        /\ [][AfterSearchAsCoded /\ AfterProgress /\ OnlyWhenNoTestFired]_vars

(***************************************************************************)
(* C18  Whenever lbfgs_optimize returns after at least one evaluator call, *)
(* the value stored in *ptr_fx is the objective value at the returned x,   *)
(* on every termination path, a failed line search included.               *)
(***************************************************************************)
C18_FinalValueAtReturnedPoint ==
    (pc = "return" /\ nEval > 0) => ptr_fx = <<EvalF(ev, x)>>

(***************************************************************************)
(* C19  With a deterministic evaluator and a valid configuration the       *)
(* objective values at accepted iterates never increase: every iteration   *)
(* whose line search succeeds has f at the new x <= f at the snapshot xp,  *)
(* so the values seen by the progress callback are non-increasing and the  *)
(* returned x never has a larger objective than x0.                        *)
(***************************************************************************)
C19_ObjectiveNeverIncreases ==
    /\ \A i \in 1..(Len(fhist) - 1) : Le(fhist[i + 1], fhist[i])
    /\ (pc = "ls_ret" /\ ls > 0) => Le(EvalF(ev, x), EvalF(ev, xp))
    /\ (pc = "return" /\ nEval > 0) => Le(EvalF(ev, x), EvalF(ev, x0))

=============================================================================
